---- MODULE Spec2Model ----
(***************************************************************************)
(* A model of the atomic_ops library: the memory-model tagged atomic       *)
(* primitives of atomic_ops.hpp and the atomic bitmap built on them        *)
(* (bitmap_get, bitmap_set, bitmap_clear, bitmap_next, bitmap_first).      *)
(*                                                                         *)
(* A word is a natural number below 2^BITMAP_WORD_BITS and the bitwise     *)
(* operations are computed on its binary digits.  The word width of the    *)
(* source is 8 * sizeof(unsigned long); the model scales it down to        *)
(* BITMAP_WORD_BITS so that every bitmap can be enumerated.  The index     *)
(* type T of the bitmap functions is a template parameter; indices are     *)
(* modelled as naturals far below the range of any T.                      *)
(***************************************************************************)
EXTENDS Integers, FiniteSets, Sequences

\* Scaled-down word width (bits per unsigned long).
BITMAP_WORD_BITS == 3
\* Number of bits n the caller's bitmap is allocated for.
NBITS == 7
\* Number of threads of the concurrent specification.
NTHREADS == 2

\* bitmap_words(n): the number of words of an array that holds n bits.
bitmap_words(n) ==
  LET w == n \div BITMAP_WORD_BITS
      b == n % BITMAP_WORD_BITS
  IN w + (IF b # 0 THEN 1 ELSE 0)

\* The caller-owned array and the bit indices that address a word of it.
NWORDS == bitmap_words(NBITS)
CAPACITY == NWORDS * BITMAP_WORD_BITS
Threads == 1..NTHREADS
WordIdx == 0..(NWORDS - 1)

RECURSIVE Pow2(_)
Pow2(n) == IF n = 0 THEN 1 ELSE 2 * Pow2(n - 1)

\* Largest value of an unsigned long (all bits set).
ULONG_MAX == Pow2(BITMAP_WORD_BITS) - 1
Words == 0..ULONG_MAX
Bitmaps == [WordIdx -> Words]

(***************************************************************************)
(* Bitwise operations on unsigned long.                                    *)
(***************************************************************************)
RECURSIVE BitAndN(_, _, _)
BitAndN(x, y, n) ==
  IF n = 0 THEN 0
  ELSE (IF x % 2 = 1 /\ y % 2 = 1 THEN 1 ELSE 0)
       + 2 * BitAndN(x \div 2, y \div 2, n - 1)

RECURSIVE BitOrN(_, _, _)
BitOrN(x, y, n) ==
  IF n = 0 THEN 0
  ELSE (IF x % 2 = 1 \/ y % 2 = 1 THEN 1 ELSE 0)
       + 2 * BitOrN(x \div 2, y \div 2, n - 1)

BitAnd(x, y) == BitAndN(x, y, BITMAP_WORD_BITS)
BitOr(x, y) == BitOrN(x, y, BITMAP_WORD_BITS)
BitNot(x) == ULONG_MAX - x
ShiftRight(x, b) == x \div Pow2(b)

\* std::countr_zero on unsigned long: the number of trailing zero bits.
RECURSIVE countr_zero(_)
countr_zero(d) ==
  IF d = 0 THEN BITMAP_WORD_BITS
  ELSE IF d % 2 = 1 THEN 0 ELSE 1 + countr_zero(d \div 2)

(***************************************************************************)
(* atomic_ops.hpp: memory models and the orders they map to.               *)
(***************************************************************************)
SequentialConsistency == "SequentialConsistency"
ReleaseConsistency == "ReleaseConsistency"
RelaxedConsistency == "RelaxedConsistency"
Unsynchronized == "Unsynchronized"
MemoryModel ==
  {SequentialConsistency, ReleaseConsistency, RelaxedConsistency, Unsynchronized}

load_order(m) ==
  CASE m = SequentialConsistency -> "seq_cst"
    [] m = ReleaseConsistency -> "acquire"
    [] m = RelaxedConsistency -> "relaxed"
    [] m = Unsynchronized -> "relaxed"
    [] OTHER -> "unreachable"

store_order(m) ==
  CASE m = SequentialConsistency -> "seq_cst"
    [] m = ReleaseConsistency -> "release"
    [] m = RelaxedConsistency -> "relaxed"
    [] m = Unsynchronized -> "relaxed"
    [] OTHER -> "unreachable"

rmw_order_of_load(m) == load_order(m)

rmw_order(m) ==
  CASE m = SequentialConsistency -> "seq_cst"
    [] m = ReleaseConsistency -> "acq_rel"
    [] m = RelaxedConsistency -> "relaxed"
    [] m = Unsynchronized -> "relaxed"
    [] OTHER -> "unreachable"

\* The __atomic builtins on one location: the value read, and the value the
\* location holds afterwards.  The order does not change the value.
atomic_load(t, order) == t
atomic_fetch_or_overwrite(t, u, order) == [old |-> t, new |-> u]
atomic_fetch_or(t, u, order) == [old |-> t, new |-> BitOr(t, u)]
atomic_fetch_and_overwrite(t, u, order) == [old |-> t, new |-> u]
atomic_fetch_and(t, u, order) == [old |-> t, new |-> BitAnd(t, u)]
atomic_store(t, u, order) == u
atomic_add_fetch(t, u, order) ==
  [old |-> (t + u) % Pow2(BITMAP_WORD_BITS),
   new |-> (t + u) % Pow2(BITMAP_WORD_BITS)]
atomic_fetch_add(t, u, order) ==
  [old |-> t, new |-> (t + u) % Pow2(BITMAP_WORD_BITS)]

\* load(T& t, mm_tag<mm>): a plain read under Unsynchronized.
load(t, m) == IF m = Unsynchronized THEN t ELSE atomic_load(t, load_order(m))

(***************************************************************************)
(* The bitmap helpers.                                                     *)
(***************************************************************************)
bitmap_mask(t) == Pow2(t)

WordOf(i) == i \div BITMAP_WORD_BITS
BitOf(i) == i % BITMAP_WORD_BITS

\* The mask bitmap_set combines with fetch_or, and the one bitmap_clear
\* combines with fetch_and.
SetMask(i) == bitmap_mask(BitOf(i))
ClearMaskNoComplement(i) == bitmap_mask(BitOf(i))
ClearMask(i) == BitNot(bitmap_mask(BitOf(i)))

\* The values bitmap_get, bitmap_set and bitmap_clear return, from the word
\* that the load or the fetch operation returned.
GetResultUnmasked(v, i) == v
GetResult(v, i) == BitAnd(v, bitmap_mask(BitOf(i)))
SetResultUnmasked(old, i) == old
SetResult(old, i) == BitAnd(old, SetMask(i))
ClearResult(old, i) == BitAnd(old, ClearMask(i))

\* bitmap_next: the shifted word, the saturated result, and the position the
\* recursive call is entered with.
NextShiftedUnshifted(v, i) == v
NextShifted(v, i) == ShiftRight(v, BitOf(i))
NextFoundUnclamped(i, d, e) == i + countr_zero(d)
NextFound(i, d, e) ==
  LET n == i + countr_zero(d) IN IF n < e THEN n ELSE e
NextSkipNoDecrement(i) == i + (BITMAP_WORD_BITS - BitOf(i))
NextSkipTwoWords(i) == i + (2 * BITMAP_WORD_BITS - BitOf(i)) - 1
NextSkipWholeWord(i) == i + BITMAP_WORD_BITS - 1
NextSkipStay(i) == i - 1
NextSkip(i) == i + (BITMAP_WORD_BITS - BitOf(i)) - 1

\* The bound test of bitmap_next, on the incremented i.
NextPastBoundStrict(i, e) == i > e
NextPastBoundEarly(i, e) == i + 1 >= e
NextPastBound(i, e) == i >= e

(***************************************************************************)
(* State.                                                                  *)
(*   bits   the caller-owned word array                                    *)
(*   pc     where each thread is in its call                               *)
(*   call   the operation and the arguments of each thread's call          *)
(*   cur    the parameter i of the running bitmap_next invocation          *)
(*   temp   the local temp of the Unsynchronized fetch operations          *)
(*   ret    the value the finished call returned                           *)
(*   loads  the word indices the call has loaded so far                    *)
(*   snap   the array as it was when the call was made                     *)
(*   last   the call the thread finished before the current one: its       *)
(*          operation, bit and result, and the operation before it         *)
(*   steps  the number of bitmap_next invocations of the call so far       *)
(*   access the kind of memory access the call's tagged operation made,    *)
(*          and the memory order it passed to the atomic primitive         *)
(*   visited the indices an enumeration by repeated scans has produced     *)
(*   stable a bit that no other thread clears while a scan runs            *)
(***************************************************************************)
VARIABLES bits, pc, call, cur, temp, ret, loads, snap, last,
          steps, access, visited, stable

vars == <<bits, pc, call, cur, temp, ret, loads, snap, last,
          steps, access, visited, stable>>

NoCall == [op |-> "none", i |-> 0, e |-> 0, mm |-> ReleaseConsistency]
NoLast == [op |-> "none", i |-> 0, ret |-> 0, prev |-> "none"]
ZeroBitmap == [w \in WordIdx |-> 0]
NoAccess == [kind |-> "none", order |-> "none"]

\* The words a read of bits[w] can yield: the word itself, or anything when
\* w lies outside the array (the read is undefined).
Deref(w) == IF w \in WordIdx THEN {bits[w]} ELSE Words

Idle(t) == pc[t] \in {"idle", "done"}

\* A thread enters a call: its locals are fresh, the array is remembered.
Enter(t, c, p) ==
  /\ Idle(t)
  /\ pc' = [pc EXCEPT ![t] = p]
  /\ last' = [last EXCEPT ![t] = [op |-> call[t].op, i |-> call[t].i,
                                  ret |-> ret[t], prev |-> last[t].op]]
  /\ call' = [call EXCEPT ![t] = c]
  /\ cur' = [cur EXCEPT ![t] = c.i]
  /\ temp' = [temp EXCEPT ![t] = 0]
  /\ ret' = [ret EXCEPT ![t] = 0]
  /\ loads' = [loads EXCEPT ![t] = {}]
  /\ snap' = [snap EXCEPT ![t] = bits]
  /\ steps' = [steps EXCEPT ![t] = 0]
  /\ access' = [access EXCEPT ![t] = NoAccess]
  /\ UNCHANGED <<bits, stable>>

Return(t, v) ==
  /\ pc' = [pc EXCEPT ![t] = "done"]
  /\ ret' = [ret EXCEPT ![t] = v]

(***************************************************************************)
(* bitmap_next and bitmap_first.                                           *)
(***************************************************************************)
CallNext(t, i, e, m) ==
  Enter(t, [op |-> "bitmap_next", i |-> i, e |-> e, mm |-> m], "bitmap_next")

CallFirst(t, i, e, m) ==
  Enter(t, [op |-> "bitmap_first", i |-> i, e |-> e, mm |-> m], "bitmap_first")

\* One invocation of bitmap_next: ++i, the bound test, the load of the word
\* of i, and either a result or the recursive call.
NextStep(t) ==
  /\ pc[t] = "bitmap_next"
  /\ LET i == cur[t] + 1
         e == call[t].e
         w == WordOf(i)
     IN IF NextPastBound(i, e)
        THEN /\ Return(t, e)
             /\ UNCHANGED <<cur, loads>>
        ELSE \E v \in Deref(w) :
               LET d == NextShifted(load(v, call[t].mm), i)
               IN /\ loads' = [loads EXCEPT ![t] = @ \cup {w}]
                  /\ IF d # 0
                     THEN /\ Return(t, NextFound(i, d, e))
                          /\ UNCHANGED cur
                     ELSE /\ cur' = [cur EXCEPT ![t] = NextSkip(i)]
                          /\ UNCHANGED <<pc, ret>>
  /\ steps' = [steps EXCEPT ![t] = @ + 1]
  /\ UNCHANGED <<bits, call, temp, snap, last, access, visited, stable>>

\* bitmap_first: bitmap_get of bit i, then i or the call of bitmap_next.
FirstGet(t) ==
  /\ pc[t] = "bitmap_first"
  /\ LET i == call[t].i
         w == WordOf(i)
     IN \E v \in Deref(w) :
          /\ loads' = [loads EXCEPT ![t] = @ \cup {w}]
          /\ IF GetResult(load(v, call[t].mm), i) # 0
             THEN Return(t, i)
             ELSE /\ pc' = [pc EXCEPT ![t] = "bitmap_next"]
                  /\ UNCHANGED ret
  /\ UNCHANGED <<bits, call, cur, temp, snap, last, steps, access, visited, stable>>

\* bitmap_next and bitmap_first as functions of an array bm that does not
\* change during the call.
RECURSIVE bitmap_next(_, _, _, _)
bitmap_next(bm, i0, e, m) ==
  LET i == i0 + 1
  IN IF NextPastBound(i, e) THEN e
     ELSE LET d == NextShifted(load(bm[WordOf(i)], m), i)
          IN IF d # 0 THEN NextFound(i, d, e)
             ELSE bitmap_next(bm, NextSkip(i), e, m)

bitmap_first(bm, i, e, m) ==
  IF GetResult(load(bm[WordOf(i)], m), i) # 0 THEN i
  ELSE bitmap_next(bm, i, e, m)

(***************************************************************************)
(* The scan specification: one thread calls bitmap_next or bitmap_first    *)
(* on an arbitrary bitmap that no one modifies.                            *)
(***************************************************************************)
InitThreads ==
  /\ pc = [t \in Threads |-> "idle"]
  /\ call = [t \in Threads |-> NoCall]
  /\ cur = [t \in Threads |-> 0]
  /\ temp = [t \in Threads |-> 0]
  /\ ret = [t \in Threads |-> 0]
  /\ loads = [t \in Threads |-> {}]
  /\ last = [t \in Threads |-> NoLast]
  /\ snap = [t \in Threads |-> ZeroBitmap]
  /\ steps = [t \in Threads |-> 0]
  /\ access = [t \in Threads |-> NoAccess]
  /\ visited = <<>>
  /\ stable = 0

InitScan ==
  /\ bits \in Bitmaps
  /\ InitThreads

ScanCall ==
  /\ pc[1] = "idle"
  /\ UNCHANGED visited
  /\ \E e \in 0..CAPACITY, m \in MemoryModel :
       \/ \E i \in 0..CAPACITY : CallNext(1, i, e, m)
       \/ \E i \in 0..(CAPACITY - 1) : CallFirst(1, i, e, m)

NextScan == ScanCall \/ NextStep(1) \/ FirstGet(1)

SpecScan == InitScan /\ [][NextScan]_vars

(***************************************************************************)
(* bitmap_get, bitmap_set and bitmap_clear.                                *)
(***************************************************************************)
BitCall(o, i, m) == [op |-> o, i |-> i, e |-> 0, mm |-> m]

CallGet(t, i, m) == Enter(t, BitCall("bitmap_get", i, m), "load")
CallSet(t, i, m) == Enter(t, BitCall("bitmap_set", i, m), "fetch_or")
CallClear(t, i, m) == Enter(t, BitCall("bitmap_clear", i, m), "fetch_and")

\* bitmap_get: the load of the word of i, masked.
GetLoad(t) ==
  /\ pc[t] = "load"
  /\ LET i == call[t].i
         w == WordOf(i)
     IN \E v \in Deref(w) :
          /\ Return(t, GetResult(load(v, call[t].mm), i))
          /\ loads' = [loads EXCEPT ![t] = @ \cup {w}]
  /\ UNCHANGED <<bits, call, cur, temp, snap, last, steps, access, visited, stable>>

\* fetch_or done as a plain read followed by a plain write under every model.
FetchOrSplit(t) ==
  /\ pc[t] = "fetch_or"
  /\ temp' = [temp EXCEPT ![t] = bits[WordOf(call[t].i)]]
  /\ pc' = [pc EXCEPT ![t] = "fetch_or_write"]
  /\ UNCHANGED <<bits, call, cur, ret, loads, snap, last, steps, access, visited, stable>>

\* fetch_or under a synchronized model: one atomic read-modify-write.
FetchOrAtomic(t) ==
  /\ pc[t] = "fetch_or"
  /\ call[t].mm # Unsynchronized
  /\ LET i == call[t].i
         w == WordOf(i)
         r == atomic_fetch_or(bits[w], SetMask(i), rmw_order(call[t].mm))
     IN /\ bits' = [bits EXCEPT ![w] = r.new]
        /\ Return(t, SetResult(r.old, i))
  /\ UNCHANGED <<call, cur, temp, loads, snap, last, steps, access, visited, stable>>

\* fetch_or under Unsynchronized: T temp = t; then t = temp | u; return temp.
FetchOrRead(t) ==
  /\ pc[t] = "fetch_or"
  /\ call[t].mm = Unsynchronized
  /\ temp' = [temp EXCEPT ![t] = bits[WordOf(call[t].i)]]
  /\ pc' = [pc EXCEPT ![t] = "fetch_or_write"]
  /\ UNCHANGED <<bits, call, cur, ret, loads, snap, last, steps, access, visited, stable>>

\* The write of fetch_or combining the operand into the location as it is
\* now, t = t | u, instead of into temp.
FetchOrWriteReread(t) ==
  /\ pc[t] = "fetch_or_write"
  /\ LET i == call[t].i
     IN /\ bits' = [bits EXCEPT ![WordOf(i)] = BitOr(bits[WordOf(i)], SetMask(i))]
        /\ Return(t, SetResult(temp[t], i))
  /\ UNCHANGED <<call, cur, temp, loads, snap, last, steps, access, visited, stable>>

FetchOrWrite(t) ==
  /\ pc[t] = "fetch_or_write"
  /\ LET i == call[t].i
     IN /\ bits' = [bits EXCEPT ![WordOf(i)] = BitOr(temp[t], SetMask(i))]
        /\ Return(t, SetResult(temp[t], i))
  /\ UNCHANGED <<call, cur, temp, loads, snap, last, steps, access, visited, stable>>

\* fetch_and under a synchronized model: one atomic read-modify-write.
FetchAndAtomic(t) ==
  /\ pc[t] = "fetch_and"
  /\ call[t].mm # Unsynchronized
  /\ LET i == call[t].i
         w == WordOf(i)
         r == atomic_fetch_and(bits[w], ClearMask(i), rmw_order(call[t].mm))
     IN /\ bits' = [bits EXCEPT ![w] = r.new]
        /\ Return(t, ClearResult(r.old, i))
  /\ UNCHANGED <<call, cur, temp, loads, snap, last, steps, access, visited, stable>>

\* fetch_and under Unsynchronized: T temp = t; then t = temp & u; return temp.
FetchAndRead(t) ==
  /\ pc[t] = "fetch_and"
  /\ call[t].mm = Unsynchronized
  /\ temp' = [temp EXCEPT ![t] = bits[WordOf(call[t].i)]]
  /\ pc' = [pc EXCEPT ![t] = "fetch_and_write"]
  /\ UNCHANGED <<bits, call, cur, ret, loads, snap, last, steps, access, visited, stable>>

FetchAndWrite(t) ==
  /\ pc[t] = "fetch_and_write"
  /\ LET i == call[t].i
     IN /\ bits' = [bits EXCEPT ![WordOf(i)] = BitAnd(temp[t], ClearMask(i))]
        /\ Return(t, ClearResult(temp[t], i))
  /\ UNCHANGED <<call, cur, temp, loads, snap, last, steps, access, visited, stable>>

\* The memory steps of a thread's call of bitmap_set or bitmap_clear.
RmwStep(t) ==
  \/ FetchOrAtomic(t)
  \/ FetchOrRead(t)
  \/ FetchOrWrite(t)
  \/ FetchAndAtomic(t)
  \/ FetchAndRead(t)
  \/ FetchAndWrite(t)

(***************************************************************************)
(* The single-thread specification: one thread calls bitmap_get,           *)
(* bitmap_set and bitmap_clear one after the other, in any order, on an    *)
(* arbitrary bitmap.  The bit and the memory model the thread works with   *)
(* are drawn at Init.                                                      *)
(***************************************************************************)
InitBit ==
  /\ bits \in Bitmaps
  /\ pc = [t \in Threads |-> "idle"]
  /\ \E i \in 0..(CAPACITY - 1), m \in MemoryModel :
       call = [t \in Threads |-> IF t = 1 THEN BitCall("none", i, m) ELSE NoCall]
  /\ cur = [t \in Threads |-> 0]
  /\ temp = [t \in Threads |-> 0]
  /\ ret = [t \in Threads |-> 0]
  /\ loads = [t \in Threads |-> {}]
  /\ last = [t \in Threads |-> NoLast]
  /\ snap = [t \in Threads |-> ZeroBitmap]
  /\ steps = [t \in Threads |-> 0]
  /\ access = [t \in Threads |-> NoAccess]
  /\ visited = <<>>
  /\ stable = 0

BitCallAny ==
  /\ UNCHANGED visited
  /\ \/ CallGet(1, call[1].i, call[1].mm)
     \/ CallSet(1, call[1].i, call[1].mm)
     \/ CallClear(1, call[1].i, call[1].mm)

NextBit == BitCallAny \/ GetLoad(1) \/ RmwStep(1)

SpecBit == InitBit /\ [][NextBit]_vars

(***************************************************************************)
(* The concurrent specification: every thread has one call of bitmap_set   *)
(* or bitmap_clear outstanding, under any model, on a bit of the last word *)
(* of the array; the memory steps of the calls interleave in every order.  *)
(* Threads are interchangeable, so they are numbered in the order of their *)
(* calls (by bit, then operation, then model).                             *)
(***************************************************************************)
ConcWord == NWORDS - 1
ConcBits == (ConcWord * BITMAP_WORD_BITS)..(CAPACITY - 1)

ConcPc(o) == IF o = "bitmap_set" THEN "fetch_or" ELSE "fetch_and"

ModelRank(m) ==
  CASE m = SequentialConsistency -> 0
    [] m = ReleaseConsistency -> 1
    [] m = RelaxedConsistency -> 2
    [] m = Unsynchronized -> 3

CallRank(c) ==
  (c.i * 2 + (IF c.op = "bitmap_set" THEN 0 ELSE 1)) * 4 + ModelRank(c.mm)

InitConc ==
  /\ bits \in {bm \in Bitmaps : \A w \in WordIdx \ {ConcWord} : bm[w] = 0}
  /\ call \in [Threads -> {BitCall(o, i, m) :
                   o \in {"bitmap_set", "bitmap_clear"},
                   i \in ConcBits, m \in MemoryModel}]
  /\ \A t \in Threads \ {NTHREADS} : CallRank(call[t]) <= CallRank(call[t + 1])
  /\ pc = [t \in Threads |-> ConcPc(call[t].op)]
  /\ cur = [t \in Threads |-> call[t].i]
  /\ temp = [t \in Threads |-> 0]
  /\ ret = [t \in Threads |-> 0]
  /\ loads = [t \in Threads |-> {}]
  /\ last = [t \in Threads |-> NoLast]
  /\ snap = [t \in Threads |-> bits]
  /\ steps = [t \in Threads |-> 0]
  /\ access = [t \in Threads |-> NoAccess]
  /\ visited = <<>>
  /\ stable = 0

NextConc == \E t \in Threads : RmwStep(t)

SpecConc == InitConc /\ [][NextConc]_vars

(***************************************************************************)
(* The tagged operations of atomic_ops.hpp on one location: one thread     *)
(* calls load, store, fetch_add, fetch_and and fetch_or, one after the     *)
(* other, with any operand and any model.  The location is word 0 of the   *)
(* array, an unsigned long.                                                *)
(***************************************************************************)
FetchOps == {"fetch_add", "fetch_and", "fetch_or"}
TaggedOps == {"load", "store"} \cup FetchOps

OpCall(o, u, m) == [op |-> o, i |-> 0, e |-> 0, u |-> u, mm |-> m]

PlainAccess == [kind |-> "plain", order |-> "none"]
AtomicAccess(order) == [kind |-> "atomic", order |-> order]

\* The primitive the tagged fetch operation o calls.
AtomicFetch(o, t, u, order) ==
  CASE o = "fetch_add" -> atomic_fetch_add(t, u, order)
    [] o = "fetch_and" -> atomic_fetch_and(t, u, order)
    [] o = "fetch_or" -> atomic_fetch_or(t, u, order)

\* temp + u, temp & u or temp | u, converted to the unsigned type T.
PlainCombine(o, v, u) ==
  CASE o = "fetch_add" -> (v + u) % Pow2(BITMAP_WORD_BITS)
    [] o = "fetch_and" -> BitAnd(v, u)
    [] o = "fetch_or" -> BitOr(v, u)

\* A call of a tagged operation.  load takes no operand.
CallTagged(t) ==
  /\ Idle(t)
  /\ \E o \in TaggedOps, m \in MemoryModel :
       \E u \in (IF o = "load" THEN {0} ELSE Words) :
         /\ call' = [call EXCEPT ![t] = OpCall(o, u, m)]
         /\ pc' = [pc EXCEPT ![t] = "tagged"]
  /\ temp' = [temp EXCEPT ![t] = 0]
  /\ ret' = [ret EXCEPT ![t] = 0]
  /\ snap' = [snap EXCEPT ![t] = bits]
  /\ access' = [access EXCEPT ![t] = NoAccess]
  /\ UNCHANGED <<bits, cur, loads, last, steps, visited, stable>>

\* load(T& t, mm_tag<mm>).
TaggedLoad(t) ==
  /\ pc[t] = "tagged"
  /\ call[t].op = "load"
  /\ IF call[t].mm = Unsynchronized
     THEN /\ access' = [access EXCEPT ![t] = PlainAccess]
          /\ Return(t, bits[0])
     ELSE /\ access' = [access EXCEPT ![t] =
                          AtomicAccess(load_order(call[t].mm))]
          /\ Return(t, atomic_load(bits[0], load_order(call[t].mm)))
  /\ UNCHANGED <<bits, call, cur, temp, loads, snap, last, steps, visited, stable>>

\* store(T& t, U u, mm_tag<mm>).
TaggedStore(t) ==
  /\ pc[t] = "tagged"
  /\ call[t].op = "store"
  /\ IF call[t].mm = Unsynchronized
     THEN /\ access' = [access EXCEPT ![t] = PlainAccess]
          /\ bits' = [bits EXCEPT ![0] = call[t].u]
     ELSE /\ access' = [access EXCEPT ![t] =
                          AtomicAccess(store_order(call[t].mm))]
          /\ bits' = [bits EXCEPT ![0] =
                        atomic_store(bits[0], call[t].u,
                                     store_order(call[t].mm))]
  /\ Return(t, 0)
  /\ UNCHANGED <<call, cur, temp, loads, snap, last, steps, visited, stable>>

\* fetch_add / fetch_and / fetch_or under a synchronized model.
TaggedFetchAtomic(t) ==
  /\ pc[t] = "tagged"
  /\ call[t].op \in FetchOps
  /\ call[t].mm # Unsynchronized
  /\ LET r == AtomicFetch(call[t].op, bits[0], call[t].u,
                          rmw_order(call[t].mm))
     IN /\ bits' = [bits EXCEPT ![0] = r.new]
        /\ Return(t, r.old)
  /\ access' = [access EXCEPT ![t] = AtomicAccess(rmw_order(call[t].mm))]
  /\ UNCHANGED <<call, cur, temp, loads, snap, last, steps, visited, stable>>

\* fetch_add / fetch_and / fetch_or under Unsynchronized: T temp = t.
TaggedFetchRead(t) ==
  /\ pc[t] = "tagged"
  /\ call[t].op \in FetchOps
  /\ call[t].mm = Unsynchronized
  /\ temp' = [temp EXCEPT ![t] = bits[0]]
  /\ pc' = [pc EXCEPT ![t] = "tagged_write"]
  /\ access' = [access EXCEPT ![t] = PlainAccess]
  /\ UNCHANGED <<bits, call, cur, ret, loads, snap, last, steps, visited, stable>>

\* ... then t = temp OP u; return temp.
TaggedFetchWrite(t) ==
  /\ pc[t] = "tagged_write"
  /\ bits' = [bits EXCEPT ![0] = PlainCombine(call[t].op, temp[t], call[t].u)]
  /\ Return(t, temp[t])
  /\ UNCHANGED <<call, cur, temp, loads, snap, last, steps, access, visited, stable>>

InitOps ==
  /\ bits \in {bm \in Bitmaps : \A w \in WordIdx \ {0} : bm[w] = 0}
  /\ InitThreads

NextOps ==
  \/ CallTagged(1)
  \/ TaggedLoad(1)
  \/ TaggedStore(1)
  \/ TaggedFetchAtomic(1)
  \/ TaggedFetchRead(1)
  \/ TaggedFetchWrite(1)

SpecOps == InitOps /\ [][NextOps]_vars

(***************************************************************************)
(* Enumeration: one thread calls bitmap_first(bits, 0, e) and then, while  *)
(* the result j is below e, bitmap_next(bits, j, e), on a bitmap that no   *)
(* one modifies.  visited lists the results below e in the order they      *)
(* came.                                                                   *)
(***************************************************************************)
EnumFirst ==
  /\ pc[1] = "idle"
  /\ \E e \in 0..CAPACITY, m \in MemoryModel : CallFirst(1, 0, e, m)
  /\ UNCHANGED visited

EnumNext ==
  /\ pc[1] = "done"
  /\ ret[1] < call[1].e
  /\ visited' = Append(visited, ret[1])
  /\ CallNext(1, ret[1], call[1].e, call[1].mm)

InitEnum ==
  /\ bits \in Bitmaps
  /\ InitThreads

NextEnum ==
  \/ EnumFirst
  \/ EnumNext
  \/ FirstGet(1)
  \/ NextStep(1)

SpecEnum == InitEnum /\ [][NextEnum]_vars

(***************************************************************************)
(* The frame specification: one thread makes one call of any of the five   *)
(* bitmap functions, with any arguments, on an arbitrary bitmap.           *)
(***************************************************************************)
FrameCall ==
  /\ pc[1] = "idle"
  /\ UNCHANGED visited
  /\ \E i \in 0..(CAPACITY - 1), m \in MemoryModel :
       \/ CallGet(1, i, m)
       \/ CallSet(1, i, m)
       \/ CallClear(1, i, m)

NextFrame ==
  \/ ScanCall
  \/ FrameCall
  \/ NextStep(1)
  \/ FirstGet(1)
  \/ GetLoad(1)
  \/ RmwStep(1)

SpecFrame == InitScan /\ [][NextFrame]_vars

(***************************************************************************)
(* Concurrent scans: thread 1 runs one call of bitmap_next under a         *)
(* synchronized model while the other threads call bitmap_set and          *)
(* bitmap_clear under synchronized models.  Such a call of another thread  *)
(* is one atomic fetch_or or fetch_and; its result is not used.  stable is *)
(* a bit the other threads do not clear, CAPACITY when there is none.      *)
(* snap is not recorded.                                                   *)
(***************************************************************************)
Synchronized == MemoryModel \ {Unsynchronized}

\* bitmap_set(bits, j, m) of another thread, for any bit j.
OtherSet ==
  /\ pc[1] = "bitmap_next"
  /\ bits' \in
       {[bits EXCEPT ![WordOf(j)] =
           atomic_fetch_or(bits[WordOf(j)], SetMask(j), rmw_order(m)).new] :
          j \in 0..(CAPACITY - 1), m \in Synchronized}
  /\ UNCHANGED <<pc, call, cur, temp, ret, loads, snap, last, steps, access, visited, stable>>

\* bitmap_clear(bits, j, m) of another thread, for any bit j but stable.
OtherClear ==
  /\ pc[1] = "bitmap_next"
  /\ bits' \in
       {[bits EXCEPT ![WordOf(j)] =
           atomic_fetch_and(bits[WordOf(j)], ClearMask(j), rmw_order(m)).new] :
          j \in 0..(CAPACITY - 1) \ {stable}, m \in Synchronized}
  /\ UNCHANGED <<pc, call, cur, temp, ret, loads, snap, last, steps, access, visited, stable>>

\* Thread 1 has entered bitmap_next(bits, i, e) under model m.
Scanning(i, e, m) ==
  /\ pc = [t \in Threads |-> IF t = 1 THEN "bitmap_next" ELSE "idle"]
  /\ call = [t \in Threads |->
               IF t = 1
               THEN [op |-> "bitmap_next", i |-> i, e |-> e, mm |-> m]
               ELSE NoCall]
  /\ cur = [t \in Threads |-> IF t = 1 THEN i ELSE 0]
  /\ temp = [t \in Threads |-> 0]
  /\ ret = [t \in Threads |-> 0]
  /\ loads = [t \in Threads |-> {}]
  /\ last = [t \in Threads |-> NoLast]
  /\ snap = [t \in Threads |-> ZeroBitmap]
  /\ steps = [t \in Threads |-> 0]
  /\ access = [t \in Threads |-> NoAccess]
  /\ visited = <<>>

NextRace ==
  \/ NextStep(1)
  \/ OtherSet
  \/ OtherClear

\* A scan past a bit that is set when the call starts and is not cleared.
InitStable ==
  /\ bits \in Bitmaps
  /\ stable \in 0..(CAPACITY - 1)
  /\ GetResult(bits[WordOf(stable)], stable) # 0
  /\ \E i \in 0..(CAPACITY - 1), e \in 0..CAPACITY, m \in Synchronized :
       /\ i < stable
       /\ stable < e
       /\ Scanning(i, e, m)

SpecStable == InitStable /\ [][NextRace]_vars

\* A scan with any arguments; the running call keeps taking steps.
InitLive ==
  /\ bits \in Bitmaps
  /\ stable = CAPACITY
  /\ \E i \in 0..CAPACITY, e \in 0..CAPACITY, m \in Synchronized :
       Scanning(i, e, m)

SpecLive == InitLive /\ [][NextRace]_vars /\ WF_vars(NextStep(1))

(***************************************************************************)
(* Properties.                                                             *)
(***************************************************************************)
\* Bit j of the array bm, read off the binary digits of its word.
IsSet(bm, j) ==
  (bm[j \div BITMAP_WORD_BITS] \div Pow2(j % BITMAP_WORD_BITS)) % 2 = 1

\* The set bit indices j of bm with lo <= j < e.
SetIn(bm, lo, e) == {j \in lo..(e - 1) : IsSet(bm, j)}

Min(S) == CHOOSE x \in S : \A y \in S : x <= y

NextDone == pc[1] = "done" /\ call[1].op = "bitmap_next"
FirstDone == pc[1] = "done" /\ call[1].op = "bitmap_first"

\* C1: on an unmodified bitmap, when i < e and some bit j with i < j < e is
\* set, bitmap_next(bits, i, e) returns the smallest such j.
C1_NextFindsMinimum ==
  (NextDone /\ call[1].i < call[1].e
     /\ SetIn(bits, call[1].i + 1, call[1].e) # {})
    => ret[1] = Min(SetIn(bits, call[1].i + 1, call[1].e))

\* C1 witness: the only set bit after i is the first bit of the next word
\* and the scan, started in the word before, has crossed the word boundary.
C1_Witness ==
  /\ NextDone
  /\ call[1].i = 0
  /\ SetIn(bits, 1, CAPACITY) = {BITMAP_WORD_BITS}
  /\ loads[1] = {0, 1}
  /\ ret[1] = BITMAP_WORD_BITS

\* C2: bitmap_next saturates: when no bit j with i < j < e is set it returns
\* exactly e, and it never returns more than e.
C2_NextSaturates ==
  NextDone =>
    /\ ret[1] <= call[1].e
    /\ SetIn(bits, call[1].i + 1, call[1].e) = {} => ret[1] = call[1].e

\* C2 witness: no bit in (i, e) nor bit e is set, and the word of e - 1, which
\* was loaded, holds a set bit above e: the result was clamped to e.
C2_Witness ==
  /\ NextDone
  /\ call[1].i + 1 < call[1].e
  /\ call[1].e < CAPACITY
  /\ SetIn(bits, call[1].i + 1, call[1].e + 1) = {}
  /\ \E j \in (call[1].e + 1)..(CAPACITY - 1) :
       /\ IsSet(bits, j)
       /\ j \div BITMAP_WORD_BITS = (call[1].e - 1) \div BITMAP_WORD_BITS
  /\ ((call[1].e - 1) \div BITMAP_WORD_BITS) \in loads[1]
  /\ ret[1] = call[1].e

\* C7: on an unmodified bitmap, bitmap_first returns i when bit i is set and
\* otherwise what bitmap_next(bits, i, e, m) returns; for i < e that is the
\* smallest set index j with i <= j < e, or e when there is none.
C7_FirstIsGetOrNext ==
  FirstDone =>
    LET i == call[1].i
        e == call[1].e
    IN /\ IsSet(bits, i) => ret[1] = i
       /\ ~IsSet(bits, i) => ret[1] = bitmap_next(bits, i, e, call[1].mm)
       /\ i < e => ret[1] = Min(SetIn(bits, i, e) \cup {e})

\* C7 witness: bit i is clear and bitmap_first found a later set bit below e
\* through bitmap_next.
C7_Witness ==
  /\ FirstDone
  /\ ~IsSet(bits, call[1].i)
  /\ call[1].i < ret[1]
  /\ ret[1] < call[1].e
  /\ IsSet(bits, ret[1])

\* C9: bitmap_next never reads past the bound: every word it loads, in any
\* invocation, holds a bit index below e, and with i + 1 >= e it loads none.
C9_NextLoadsBelowBound ==
  call[1].op = "bitmap_next" =>
    /\ \A w \in loads[1] : w * BITMAP_WORD_BITS < call[1].e
    /\ call[1].i + 1 >= call[1].e => loads[1] = {}

\* C9 witness: a scan that went through an empty word into the word that
\* holds e - 1, with e not at a word boundary.
C9_Witness ==
  /\ NextDone
  /\ Cardinality(loads[1]) = 2
  /\ call[1].e % BITMAP_WORD_BITS # 0
  /\ ret[1] = call[1].e

\* C10: bitmap_first honours the scan bound for every i and e: it returns at
\* most e and loads no word all of whose bit indices are >= e.
C10_FirstHonoursBound ==
  call[1].op = "bitmap_first" =>
    /\ pc[1] = "done" => ret[1] <= call[1].e
    /\ \A w \in loads[1] : w * BITMAP_WORD_BITS < call[1].e

GetDone == pc[1] = "done" /\ call[1].op = "bitmap_get"
SetDone == pc[1] = "done" /\ call[1].op = "bitmap_set"
ClearDone == pc[1] = "done" /\ call[1].op = "bitmap_clear"

\* The single-bit mask of index j, as a number.
MaskOf(j) == Pow2(j % BITMAP_WORD_BITS)

\* The previous call of the thread was operation o on the same bit.
LastWas(o) == last[1].op = o /\ last[1].i = call[1].i

\* C3: bitmap_set returns the value bit i had before the call, masked to
\* bit i (zero iff it was clear), and leaves bit i set; the second of two
\* successive set calls on a bit returns nonzero.
C3_SetReturnsPrevious ==
  SetDone =>
    /\ ret[1] = (IF IsSet(snap[1], call[1].i) THEN MaskOf(call[1].i) ELSE 0)
    /\ IsSet(bits, call[1].i)
    /\ LastWas("bitmap_set") => ret[1] # 0

\* C3 witness: two successive set calls on a bit that was clear, in a word
\* whose other bits were not all clear, returned 0 and then nonzero.
C3_Witness ==
  /\ SetDone
  /\ LastWas("bitmap_set")
  /\ last[1].ret = 0
  /\ ret[1] # 0
  /\ snap[1][call[1].i \div BITMAP_WORD_BITS] # MaskOf(call[1].i)

\* C4: bitmap_clear clears bit i and returns its previous value: nonzero
\* iff bit i was set before the call.
C4_ClearReturnsPrevious ==
  ClearDone =>
    /\ ~IsSet(bits, call[1].i)
    /\ (ret[1] # 0) <=> IsSet(snap[1], call[1].i)

\* C5: bitmap_clear of a bit that is already clear returns 0 and leaves
\* every word unchanged.
C5_ClearIdempotent ==
  (ClearDone /\ ~IsSet(snap[1], call[1].i)) =>
    /\ ret[1] = 0
    /\ bits = snap[1]

\* C6: for every model and bit, bitmap_get right after bitmap_set of the bit
\* returns its single-bit mask, and bitmap_get right after a bitmap_clear of
\* the bit returns zero.
C6_GetAfterSetAndClear ==
  GetDone =>
    /\ LastWas("bitmap_set") => ret[1] = MaskOf(call[1].i)
    /\ LastWas("bitmap_clear") => ret[1] = 0

\* C6 witness: set, then clear, then get of one bit under Unsynchronized,
\* in a word with another bit set: the get returned zero.
C6_Witness ==
  /\ GetDone
  /\ LastWas("bitmap_clear")
  /\ last[1].prev = "bitmap_set"
  /\ call[1].mm = Unsynchronized
  /\ bits[call[1].i \div BITMAP_WORD_BITS] # 0
  /\ ret[1] = 0

\* C8: no lost update.  When the threads' calls of bitmap_set and
\* bitmap_clear are on pairwise distinct bits of one word, none under
\* Unsynchronized, then once all have returned every targeted bit holds the
\* value its call wrote and every other bit is as it was.
AllDone == \A t \in Threads : pc[t] = "done"
AllAtomic == \A t \in Threads : call[t].mm # Unsynchronized
DistinctBits == \A t, u \in Threads : t # u => call[t].i # call[u].i
SameWord ==
  \A t, u \in Threads :
    call[t].i \div BITMAP_WORD_BITS = call[u].i \div BITMAP_WORD_BITS

C8_NoLostUpdate ==
  (AllDone /\ AllAtomic /\ DistinctBits /\ SameWord) =>
    \A j \in 0..(CAPACITY - 1) :
      IF \E t \in Threads : call[t].i = j
      THEN \A t \in Threads :
             call[t].i = j => (IsSet(bits, j) <=> call[t].op = "bitmap_set")
      ELSE IsSet(bits, j) <=> IsSet(snap[1], j)

\* C8 witness: a set and a clear on distinct bits of one word have both
\* returned, and both bits changed.
C8_Witness ==
  /\ AllDone /\ AllAtomic /\ DistinctBits /\ SameWord
  /\ \E t, u \in Threads :
       /\ call[t].op = "bitmap_set" /\ ~IsSet(snap[1], call[t].i)
       /\ call[u].op = "bitmap_clear" /\ IsSet(snap[1], call[u].i)

\* A step in which bitmap_next calls itself.
Recursed ==
  /\ pc[1] = "bitmap_next"
  /\ pc'[1] = "bitmap_next"
  /\ steps'[1] = steps[1] + 1

\* The words from the one of index lo to the one of index hi, lo <= hi.
WordsSpanned(lo, hi) ==
  hi \div BITMAP_WORD_BITS - lo \div BITMAP_WORD_BITS + 1

\* C12 as stated: every recursive step increases i by at least
\* BITMAP_WORD_BITS, and a call with i < e makes at most
\* (e - i) / BITMAP_WORD_BITS + 1 invocations of bitmap_next.
C12_StepBoundAsStated ==
  /\ [][Recursed => cur'[1] >= cur[1] + BITMAP_WORD_BITS]_vars
  /\ []((NextDone /\ call[1].i < call[1].e) =>
          steps[1] <= (call[1].e - call[1].i) \div BITMAP_WORD_BITS + 1)

\* C12 amended: every recursive step increases i by at least 1 and at most
\* BITMAP_WORD_BITS, and a call with i < e makes at most one invocation per
\* word from the word of i + 1 to the word of e - 1, and one more.
C12_StepBound ==
  /\ [][Recursed => /\ cur'[1] > cur[1]
                    /\ cur'[1] <= cur[1] + BITMAP_WORD_BITS]_vars
  /\ []((NextDone /\ call[1].i < call[1].e) =>
          steps[1] <= (IF call[1].i + 1 < call[1].e
                       THEN WordsSpanned(call[1].i + 1, call[1].e - 1) + 1
                       ELSE 1))

\* C12 witness: a scan from the middle of a word over two empty words that
\* took more than (e - i) / BITMAP_WORD_BITS + 1 invocations.
C12_Witness ==
  /\ NextDone
  /\ call[1].i < call[1].e
  /\ steps[1] = 3
  /\ steps[1] > (call[1].e - call[1].i) \div BITMAP_WORD_BITS + 1

Max(S) == CHOOSE x \in S : \A y \in S : y <= x

\* C20: when the shifted word is zero, the next invocation of bitmap_next
\* examines bit 0 of the following word, whatever the bit offset was; every
\* bit between the start and the position or the result is clear and lies
\* in a word that was loaded.
C20_WordSkip ==
  call[1].op = "bitmap_next" =>
    /\ (pc[1] = "bitmap_next" /\ steps[1] >= 1) =>
         /\ cur[1] + 1 = (Max(loads[1]) + 1) * BITMAP_WORD_BITS
         /\ SetIn(bits, call[1].i + 1, cur[1] + 1) = {}
    /\ pc[1] = "done" =>
         /\ SetIn(bits, call[1].i + 1, ret[1]) = {}
         /\ \A k \in (call[1].i + 1)..(ret[1] - 1) :
              (k \div BITMAP_WORD_BITS) \in loads[1]

\* C20 witness: a scan that started in the middle of a word has skipped to
\* the first bit of the next word and then again to the one after.
C20_Witness ==
  /\ call[1].op = "bitmap_next"
  /\ pc[1] = "bitmap_next"
  /\ (call[1].i + 1) % BITMAP_WORD_BITS = 1
  /\ steps[1] = 2
  /\ cur[1] + 1 = 2 * BITMAP_WORD_BITS

AllUnsynchronized == \A t \in Threads : call[t].mm = Unsynchronized

\* The bit of thread t's call does not hold the value the call wrote.
UpdateLost(t) == IsSet(bits, call[t].i) <=> call[t].op = "bitmap_clear"

\* Every thread read the word before any thread wrote it, and every call
\* changes its bit.
AllReadBeforeWrite ==
  \A t \in Threads :
    /\ temp[t] = snap[1][ConcWord]
    /\ IsSet(snap[1], call[t].i) <=> call[t].op = "bitmap_clear"

\* C15: under Unsynchronized, when the threads set or clear different bits
\* of one word and every thread's read step comes before every write step,
\* the calls all return and the update of at least one thread is lost: its
\* bit does not hold the value it wrote.
C15_UnsynchronizedLosesUpdate ==
  (AllDone /\ AllUnsynchronized /\ DistinctBits /\ SameWord
     /\ AllReadBeforeWrite) =>
    \E t \in Threads : UpdateLost(t)

\* C15 witness: two Unsynchronized calls on different bits of one word have
\* returned, after both read and then both wrote, and a bitmap_set's bit is
\* clear.
C15_Witness ==
  /\ AllDone /\ AllUnsynchronized /\ DistinctBits /\ SameWord
  /\ AllReadBeforeWrite
  /\ \E t \in Threads : call[t].op = "bitmap_set" /\ UpdateLost(t)

\* The threads whose call is on bit j.
CallersOf(j) == {t \in Threads : call[t].i = j}

\* C17: when every call on an initially clear bit j is a bitmap_set and no
\* call is Unsynchronized, exactly one of the calls on j returns 0 and the
\* others return nonzero, whatever the other threads do to the other bits
\* of the word.
C17_UniqueTransition ==
  (AllDone /\ AllAtomic) =>
    \A j \in ConcBits :
      (/\ CallersOf(j) # {}
       /\ ~IsSet(snap[1], j)
       /\ \A t \in CallersOf(j) : call[t].op = "bitmap_set") =>
        Cardinality({t \in CallersOf(j) : ret[t] = 0}) = 1

\* C17 witness: two threads have set the same initially clear bit under
\* synchronized models; one returned 0 and the other nonzero.
C17_Witness ==
  /\ AllDone /\ AllAtomic
  /\ \E t, u \in Threads :
       /\ t # u
       /\ call[t].i = call[u].i
       /\ ~IsSet(snap[1], call[t].i)
       /\ call[t].op = "bitmap_set" /\ call[u].op = "bitmap_set"
       /\ ret[t] = 0 /\ ret[u] # 0

TaggedDone == pc[1] = "done" /\ call[1].op \in TaggedOps

\* The order the table gives for operation o under model m.
TableOrder(o, m) ==
  CASE m = SequentialConsistency -> "seq_cst"
    [] m = RelaxedConsistency -> "relaxed"
    [] m = ReleaseConsistency ->
         (CASE o = "load" -> "acquire"
            [] o = "store" -> "release"
            [] OTHER -> "acq_rel")

\* C13: load_order, store_order and rmw_order give a memory order for each
\* of the four models and the orders of the table for the three
\* synchronized ones; a tagged operation under Unsynchronized makes a plain
\* access, and under any other model calls the atomic primitive with the
\* table's order.
C13_OrderTable ==
  /\ \A m \in MemoryModel :
       {load_order(m), store_order(m), rmw_order(m)} \subseteq
         {"relaxed", "acquire", "release", "acq_rel", "seq_cst"}
  /\ \A m \in MemoryModel \ {Unsynchronized} :
       /\ load_order(m) = TableOrder("load", m)
       /\ store_order(m) = TableOrder("store", m)
       /\ rmw_order(m) = TableOrder("fetch_add", m)
  /\ TaggedDone =>
       IF call[1].mm = Unsynchronized
       THEN access[1] = [kind |-> "plain", order |-> "none"]
       ELSE access[1] = [kind |-> "atomic",
                         order |-> TableOrder(call[1].op, call[1].mm)]

\* C13 witness: a fetch_and under ReleaseConsistency has called the atomic
\* primitive with acq_rel.
C13_Witness ==
  /\ TaggedDone
  /\ call[1].op = "fetch_and"
  /\ call[1].mm = ReleaseConsistency
  /\ access[1] = [kind |-> "atomic", order |-> "acq_rel"]

\* Binary digit k of the word x.
Digit(x, k) == (x \div Pow2(k)) % 2

\* C14: a finished fetch_add, fetch_and or fetch_or, under any of the four
\* models, returned the value v the location held when it was called and
\* left v + u modulo 2^BITMAP_WORD_BITS, v & u or v | u in it.
C14_FetchResult ==
  (TaggedDone /\ call[1].op \in FetchOps) =>
    LET v == snap[1][0]
        u == call[1].u
        n == bits[0]
    IN /\ ret[1] = v
       /\ n \in Words
       /\ call[1].op = "fetch_add" =>
            \E k \in 0..1 : v + u = n + k * Pow2(BITMAP_WORD_BITS)
       /\ call[1].op = "fetch_and" =>
            \A k \in 0..(BITMAP_WORD_BITS - 1) :
              Digit(n, k) = 1 <=> (Digit(v, k) = 1 /\ Digit(u, k) = 1)
       /\ call[1].op = "fetch_or" =>
            \A k \in 0..(BITMAP_WORD_BITS - 1) :
              Digit(n, k) = 1 <=> (Digit(v, k) = 1 \/ Digit(u, k) = 1)

\* C14 witness: an Unsynchronized fetch_add whose sum wrapped around has
\* returned.
C14_Witness ==
  /\ TaggedDone
  /\ call[1].op = "fetch_add"
  /\ call[1].mm = Unsynchronized
  /\ snap[1][0] + call[1].u >= Pow2(BITMAP_WORD_BITS)
  /\ ret[1] = snap[1][0]
  /\ bits[0] # snap[1][0]

\* The enumeration has produced a result that is not below e.
EnumDone == pc[1] = "done" /\ ret[1] >= call[1].e

\* C16: the results of bitmap_first(bits, 0, e) and of the bitmap_next calls
\* that follow it are strictly increasing set bits below e; when a result
\* is not below e it is e, and the results before it are exactly the set
\* bits below e.
C16_Enumeration ==
  /\ \A k \in 1..Len(visited) :
       /\ visited[k] < call[1].e
       /\ IsSet(bits, visited[k])
       /\ k > 1 => visited[k - 1] < visited[k]
  /\ EnumDone =>
       /\ ret[1] = call[1].e
       /\ {visited[k] : k \in 1..Len(visited)} = SetIn(bits, 0, call[1].e)
       /\ Len(visited) = Cardinality(SetIn(bits, 0, call[1].e))

\* C16 witness: an enumeration has visited two set bits in different words
\* and has ended with e, leaving out bit e, which is set.
C16_Witness ==
  /\ EnumDone
  /\ call[1].op = "bitmap_next"
  /\ Len(visited) = 2
  /\ visited[1] \div BITMAP_WORD_BITS # visited[2] \div BITMAP_WORD_BITS
  /\ call[1].e < CAPACITY
  /\ IsSet(bits, call[1].e)

ReadOnlyOps == {"bitmap_get", "bitmap_next", "bitmap_first"}

\* C18: from the call on, during it and after it, every bit of the array
\* holds the value it had when the call was made, except bit i of a
\* bitmap_set(bits, i) or bitmap_clear(bits, i).
C18_Frame ==
  call[1].op # "none" =>
    \A j \in 0..(CAPACITY - 1) :
      (call[1].op \in ReadOnlyOps \/ j # call[1].i) =>
        (IsSet(bits, j) <=> IsSet(snap[1], j))

\* C18 witness: a bitmap_clear has returned after changing its bit, in a
\* word where another bit is set and in an array with another nonzero word.
C18_Witness ==
  /\ ClearDone
  /\ IsSet(snap[1], call[1].i)
  /\ ~IsSet(bits, call[1].i)
  /\ \E j \in 0..(CAPACITY - 1) :
       /\ j # call[1].i
       /\ j \div BITMAP_WORD_BITS = call[1].i \div BITMAP_WORD_BITS
       /\ IsSet(bits, j)
  /\ \E w \in WordIdx : w # call[1].i \div BITMAP_WORD_BITS /\ bits[w] # 0

\* C19: a scan bitmap_next(bits, i, e) past a bit that was set when the
\* call started and that no one clears returns r with i < r <= that bit,
\* whatever the other threads set and clear meanwhile.
C19_StableBitFound ==
  NextDone => (call[1].i < ret[1] /\ ret[1] <= stable)

\* C19 witness: the scan went through more than one word and returned the
\* stable bit, while a bit below it, which the scan saw clear, is set now.
C19_Witness ==
  /\ NextDone
  /\ stable < CAPACITY
  /\ ret[1] = stable
  /\ steps[1] >= 2
  /\ SetIn(bits, call[1].i + 1, stable) # {}

\* C11: every recursive step of bitmap_next increases the position i, and
\* the call returns, also while other threads keep setting and clearing
\* bits.
C11_NextTerminates ==
  /\ [][Recursed => cur'[1] > cur[1]]_vars
  /\ <>(pc[1] = "done")

\* C11 witness: a scan over several words has returned e while other
\* threads set bits behind it.
C11_Witness ==
  /\ NextDone
  /\ stable = CAPACITY
  /\ steps[1] >= 3
  /\ ret[1] = call[1].e
  /\ SetIn(bits, call[1].i + 1, call[1].e) # {}

====
